---- MODULE Spec2Model ----
(***************************************************************************)
(* Model of packages/fetch/src/headers.js: the Headers class (a Map from   *)
(* lower-cased header name to the array of its values) and fromRawHeaders. *)
(*                                                                         *)
(* A JavaScript string is a sequence of one-character strings, so that     *)
(* toLowerCase, the validators' regular expressions, join and              *)
(* localeCompare are computed character by character.                      *)
(***************************************************************************)
EXTENDS Integers, Sequences, FiniteSets, TLC

VARIABLES pairs, last

vars == <<pairs, last>>

\* ------------------------------------------------------------------ bounds
\* most values the store may hold, all names together
MaxVals == 3
\* longest pair sequence handed to the constructor in Init
MaxInit == 1
\* longest flat sequence handed to fromRawHeaders
MaxRaw == 3

\* ------------------------------------------------------------- characters
UpperLetters ==
  <<"A","B","C","D","E","F","G","H","I","J","K","L","M",
    "N","O","P","Q","R","S","T","U","V","W","X","Y","Z">>

LowerLetters ==
  <<"a","b","c","d","e","f","g","h","i","j","k","l","m",
    "n","o","p","q","r","s","t","u","v","w","x","y","z">>

Digits == <<"0","1","2","3","4","5","6","7","8","9">>

Range(s) == {s[i] : i \in 1..Len(s)}

\* the character class of the name regular expression: \w and the
\* punctuation it lists, less the backquote (a TLA+ string cannot hold one;
\* no input of the model contains it)
TokenChars ==
  Range(UpperLetters) \cup Range(LowerLetters) \cup Range(Digits)
    \cup {"_", "^", "-", "!", "#", "$", "%", "&", "'", "*", "+", ".", "|", "~"}

\* tab and U+0020..U+007E, the part of the value character class the model's
\* alphabet reaches
ValueChars ==
  TokenChars \cup {"\t", " ", "\"", "(", ")", ",", "/", ":", ";", "<", "=",
                   ">", "?", "@", "[", "\\", "]", "{", "}"}

\* String.prototype.toLowerCase, one character
LowerOf == [c \in Range(UpperLetters) |->
              LowerLetters[CHOOSE i \in 1..Len(UpperLetters) : UpperLetters[i] = c]]

LowerChar(c) == IF c \in DOMAIN LowerOf THEN LowerOf[c] ELSE c

toLowerCase(s) == [i \in 1..Len(s) |-> LowerChar(s[i])]

\* ------------------------------------------------------------- validators
\* TRUE when the validator returns, FALSE when it throws
validateHeaderName(name) ==
  /\ Len(name) >= 1
  /\ \A i \in 1..Len(name) : name[i] \in TokenChars

validateHeaderValue(name, value) ==
  ~ \E i \in 1..Len(value) : value[i] \notin ValueChars

\* ---------------------------------------------------------- JS sentinels
\* null is told apart from every string, undefined from every array of
\* strings: every element of a string is one character
Null == <<"null">>
Undefined == << <<"undefined">> >>
\* String(undefined)
StringUndefined == <<"u","n","d","e","f","i","n","e","d">>

\* ------------------------------------------------------------- Map #pairs
\* a Map is the sequence of its entries in insertion order
MapHas(m, k) == \E i \in 1..Len(m) : m[i].name = k

MapGet(m, k) ==
  IF MapHas(m, k)
    THEN m[CHOOSE i \in 1..Len(m) : m[i].name = k].values
    ELSE Undefined

MapSet(m, k, v) ==
  IF MapHas(m, k)
    THEN [i \in 1..Len(m) |-> IF m[i].name = k THEN [name |-> k, values |-> v] ELSE m[i]]
    ELSE Append(m, [name |-> k, values |-> v])

MapDelete(m, k) == SelectSeq(m, LAMBDA e : e.name # k)

MapKeys(m) == [i \in 1..Len(m) |-> m[i].name]

\* outcome of a call: whether it threw, the store afterwards, what it returned
Ok(p, r) == [threw |-> FALSE, pairs |-> p, ret |-> r]
Throw(p, code) == [threw |-> TRUE, pairs |-> p, ret |-> code]

\* ---------------------------------------------------------------- Headers
has(p, name) ==
  IF ~validateHeaderName(name) THEN Throw(p, "ERR_INVALID_HTTP_TOKEN")
  ELSE Ok(p, MapHas(p, name))

\* set with the value checked only after the store was written
set_StoreBeforeValueCheck(p, name, value) ==
  IF ~validateHeaderName(name) THEN Throw(p, "ERR_INVALID_HTTP_TOKEN")
  ELSE IF ~validateHeaderValue(name, value)
    THEN Throw(MapSet(p, toLowerCase(name), <<value>>), "ERR_INVALID_CHAR")
  ELSE Ok(MapSet(p, toLowerCase(name), <<value>>), Undefined)

\* set that adds to the values already there
set_Accumulates(p, name, value) ==
  IF ~validateHeaderName(name) THEN Throw(p, "ERR_INVALID_HTTP_TOKEN")
  ELSE IF ~validateHeaderValue(name, value) THEN Throw(p, "ERR_INVALID_CHAR")
  ELSE LET n == toLowerCase(name)
       IN IF MapHas(p, n)
            THEN Ok(MapSet(p, n, Append(MapGet(p, n), value)), Undefined)
            ELSE Ok(MapSet(p, n, <<value>>), Undefined)

set(p, name, value) ==
  IF ~validateHeaderName(name) THEN Throw(p, "ERR_INVALID_HTTP_TOKEN")
  ELSE IF ~validateHeaderValue(name, value) THEN Throw(p, "ERR_INVALID_CHAR")
  ELSE Ok(MapSet(p, toLowerCase(name), <<value>>), Undefined)

\* append that stores the name as given
append_KeepsCase(p, name, value) ==
  IF ~validateHeaderName(name) THEN Throw(p, "ERR_INVALID_HTTP_TOKEN")
  ELSE IF ~validateHeaderValue(name, value) THEN Throw(p, "ERR_INVALID_CHAR")
  ELSE LET values == MapGet(p, name)
       IN IF values # Undefined
            THEN Ok(MapSet(p, name, Append(values, value)), Undefined)
            ELSE Ok(MapSet(p, name, <<value>>), Undefined)

append(p, name, value) ==
  IF ~validateHeaderName(name) THEN Throw(p, "ERR_INVALID_HTTP_TOKEN")
  ELSE IF ~validateHeaderValue(name, value) THEN Throw(p, "ERR_INVALID_CHAR")
  ELSE LET n == toLowerCase(name)
           values == MapGet(p, n)
       IN IF values # Undefined
            THEN Ok(MapSet(p, n, Append(values, value)), Undefined)
            ELSE Ok(MapSet(p, n, <<value>>), Undefined)

\* Array.prototype.join(', ')
RECURSIVE join(_)
join(values) ==
  IF Len(values) = 0 THEN <<>>
  ELSE IF Len(values) = 1 THEN values[1]
  ELSE values[1] \o <<",", " ">> \o join(Tail(values))

ContentEncoding ==
  <<"c","o","n","t","e","n","t","-","e","n","c","o","d","i","n","g">>

SetCookie == <<"s","e","t","-","c","o","o","k","i","e">>

get(p, name) ==
  IF ~validateHeaderName(name) THEN Throw(p, "ERR_INVALID_HTTP_TOKEN")
  ELSE LET values == MapGet(p, toLowerCase(name))
       IN IF values = Undefined THEN Ok(p, Null)
          ELSE LET value == join(values)
               IN IF toLowerCase(name) = ContentEncoding
                    THEN Ok(p, toLowerCase(value))
                    ELSE Ok(p, value)

getSetCookie(p) ==
  LET values == MapGet(p, SetCookie)
  IN IF values = Undefined THEN Ok(p, <<>>) ELSE Ok(p, values)

delete(p, name) ==
  IF ~validateHeaderName(name) THEN Throw(p, "ERR_INVALID_HTTP_TOKEN")
  ELSE Ok(MapDelete(p, name), Undefined)

\* ------------------------------------------------------------ localeCompare
\* root collation of the token characters: punctuation, then digits, then
\* letters; letters differing only in case are told apart last, lower first
Collation ==
  <<"_", "-", "!", ".", "'", "*", "&", "#", "%", "^", "+", "|", "~", "$">>
    \o Digits \o LowerLetters

WeightOf == [c \in Range(Collation) |-> CHOOSE i \in 1..Len(Collation) : Collation[i] = c]

PrimaryWeight(c) == WeightOf[LowerChar(c)]

RECURSIVE ComparePrimary(_, _)
ComparePrimary(a, b) ==
  IF Len(a) = 0 /\ Len(b) = 0 THEN 0
  ELSE IF Len(a) = 0 THEN -1
  ELSE IF Len(b) = 0 THEN 1
  ELSE IF PrimaryWeight(a[1]) < PrimaryWeight(b[1]) THEN -1
  ELSE IF PrimaryWeight(a[1]) > PrimaryWeight(b[1]) THEN 1
  ELSE ComparePrimary(Tail(a), Tail(b))

RECURSIVE CompareCase(_, _)
CompareCase(a, b) ==
  IF Len(a) = 0 \/ Len(b) = 0 THEN 0
  ELSE IF a[1] = b[1] THEN CompareCase(Tail(a), Tail(b))
  ELSE IF a[1] = LowerChar(a[1]) THEN -1
  ELSE 1

localeCompare(a, b) ==
  IF ComparePrimary(a, b) # 0 THEN ComparePrimary(a, b) ELSE CompareCase(a, b)

\* Array.prototype.sort((a, b) => a[0].localeCompare(b[0])), which is stable
RECURSIVE InsertEntry(_, _)
InsertEntry(sorted, e) ==
  IF Len(sorted) = 0 THEN <<e>>
  ELSE IF localeCompare(sorted[1][1], e[1]) > 0 THEN <<e>> \o sorted
  ELSE <<sorted[1]>> \o InsertEntry(Tail(sorted), e)

\* entries left in the order of insertion
sort_Omitted(es) == es

RECURSIVE sort(_)
sort(es) ==
  IF Len(es) = 0 THEN <<>>
  ELSE InsertEntry(sort(SubSeq(es, 1, Len(es) - 1)), es[Len(es)])

\* ------------------------------------------------------------- iteration
\* the loop body of entries() for one key: the pairs it pushes
EntriesOf(p, name) ==
  IF toLowerCase(name) = SetCookie
    THEN LET cookies == getSetCookie(p).ret
         IN [i \in 1..Len(cookies) |-> <<name, cookies[i]>>]
    ELSE LET value == get(p, name).ret
         IN IF value # Null THEN <<<<name, value>>>> ELSE <<>>

RECURSIVE CollectEntries(_, _)
CollectEntries(p, names) ==
  IF Len(names) = 0 THEN <<>>
  ELSE EntriesOf(p, names[1]) \o CollectEntries(p, Tail(names))

entries(p) ==
  IF \E i \in 1..Len(p) : toLowerCase(p[i].name) # SetCookie /\ get(p, p[i].name).threw
    THEN Throw(p, "ERR_INVALID_HTTP_TOKEN")
    ELSE Ok(p, sort(CollectEntries(p, MapKeys(p))))

keys(p) ==
  LET e == entries(p)
  IN IF e.threw THEN e ELSE Ok(p, [i \in 1..Len(e.ret) |-> e.ret[i][1]])

values(p) ==
  LET e == entries(p)
  IN IF e.threw THEN e ELSE Ok(p, [i \in 1..Len(e.ret) |-> e.ret[i][2]])

iterator(p) == entries(p)

\* the calls forEach makes, each with the arguments (value, name)
forEach(p) ==
  LET e == entries(p)
  IN IF e.threw THEN e ELSE Ok(p, [i \in 1..Len(e.ret) |-> <<e.ret[i][2], e.ret[i][1]>>])

\* ------------------------------------------------------------ constructor
\* for (const [name, value] of ...) this.append(name, value)
\* the copy loop calling set where it should call append
RECURSIVE AppendAll_UsingSet(_, _)
AppendAll_UsingSet(p, nvs) ==
  IF Len(nvs) = 0 THEN Ok(p, Undefined)
  ELSE LET r == set(p, nvs[1][1], nvs[1][2])
       IN IF r.threw THEN r ELSE AppendAll_UsingSet(r.pairs, Tail(nvs))

RECURSIVE AppendAll(_, _)
AppendAll(p, nvs) ==
  IF Len(nvs) = 0 THEN Ok(p, Undefined)
  ELSE LET r == append(p, nvs[1][1], nvs[1][2])
       IN IF r.threw THEN r ELSE AppendAll(r.pairs, Tail(nvs))

\* .forEach(pair => { if (pair.length !== 2) throw ...; this.append(pair[0], pair[1]) })
RECURSIVE AppendPairs(_, _)
AppendPairs(p, items) ==
  IF Len(items) = 0 THEN Ok(p, Undefined)
  ELSE IF Len(items[1].elems) # 2 THEN Throw(p, "TypeError")
  ELSE LET r == append(p, items[1].elems[1], items[1].elems[2])
       IN IF r.threw THEN r ELSE AppendPairs(r.pairs, Tail(items))

\* new Headers(init); init is tagged with the branch its type selects
Headers(init) ==
  IF init.kind = "Headers"
    THEN LET e == entries(init.pairs)
         IN IF e.threw THEN Throw(<<>>, e.ret) ELSE AppendAll(<<>>, e.ret)
  ELSE IF init.kind = "null" THEN Ok(<<>>, Undefined)
  ELSE IF init.kind = "iterable"
    THEN IF \E i \in 1..Len(init.items) : ~init.items[i].object
           THEN Throw(<<>>, "TypeError")
           ELSE AppendPairs(<<>>, init.items)
  ELSE IF init.kind = "record" THEN AppendAll(<<>>, init.entries)
  ELSE Throw(<<>>, "TypeError")

\* ---------------------------------------------------------- fromRawHeaders
\* .reduce(...): the slices array.slice(index, index + 2) at the even indexes
RECURSIVE SplitIntoPairs(_)
SplitIntoPairs(headers) ==
  IF Len(headers) = 0 THEN <<>>
  ELSE IF Len(headers) = 1 THEN <<headers>>
  ELSE <<SubSeq(headers, 1, 2)>> \o SplitIntoPairs(SubSeq(headers, 3, Len(headers)))

\* String(value)
String(w) == IF Len(w) >= 2 THEN w[2] ELSE StringUndefined

\* the .filter callback: try { validate...; return true } catch { return false }
KeepPair(w) == validateHeaderName(w[1]) /\ validateHeaderValue(w[1], String(w))

fromRawHeaders(headers) ==
  LET kept == SelectSeq(SplitIntoPairs(headers), KeepPair)
  IN Headers([kind |-> "iterable",
              items |-> [i \in 1..Len(kept) |-> [object |-> TRUE, elems |-> kept[i]]]])

\* ------------------------------------------------------------------ inputs
SeqsUpTo(S, n) == UNION {[1..k -> S] : k \in 0..n}

\* each of three names in two casings, and one name that is not a token
NameInputs ==
  { <<"x","f">>, <<"X","F">>,
    SetCookie, <<"S","e","t","-","C","o","o","k","i","e">>,
    ContentEncoding,
    <<"C","o","n","t","e","n","t","-","E","n","c","o","d","i","n","g">>,
    <<"b"," ","d">> }

\* two values differing in case only, one holding a character outside the class
ValueInputs == { <<"G">>, <<"g">>, <<"\n">> }

LowerNames == {toLowerCase(n) : n \in {m \in NameInputs : validateHeaderName(m)}}

\* the (name, value) arguments of set and append: every valid pair, and calls
\* with a bad name or a bad value, on a plain and on a special name
ArgInputs ==
  {a \in NameInputs \X ValueInputs :
     validateHeaderName(a[1]) /\ validateHeaderValue(a[1], a[2])}
    \cup { << <<"b"," ","d">>, <<"g">> >>,
           << <<"b"," ","d">>, <<"\n">> >>,
           << <<"X","F">>, <<"\n">> >>,
           << SetCookie, <<"\n">> >> }

\* elements of a pair sequence: name/value arrays, an array of one element, a
\* value that is not an object
ItemInputs ==
  {[object |-> TRUE, elems |-> <<a[1], a[2]>>] : a \in ArgInputs}
    \cup {[object |-> TRUE, elems |-> << <<"x","f">> >>],
          [object |-> FALSE, elems |-> <<>>]}

IterableInputs ==
  {[kind |-> "iterable", items |-> items] : items \in SeqsUpTo(ItemInputs, MaxInit)}

\* Object.entries of a plain object: no key twice
RecordInputs ==
  {[kind |-> "record", entries |-> es] :
     es \in {e \in SeqsUpTo(ArgInputs, MaxInit) :
               \A i, j \in 1..Len(e) : i # j => e[i][1] # e[j][1]}}

HeadersInputs ==
  {[kind |-> "Headers", pairs |-> Headers(i).pairs] :
     i \in {j \in IterableInputs : ~Headers(j).threw}}

InitInputs ==
  {[kind |-> "null"], [kind |-> "other"]}
    \cup IterableInputs \cup RecordInputs \cup HeadersInputs

\* what a flat raw-header array may hold
RawStrings == { <<"x","f">>, <<"X","F">>, <<"g">>, <<"b"," ","d">>, <<"\n">> }

RawInputs == SeqsUpTo(RawStrings, MaxRaw)

\* ------------------------------------------------------------ state machine
\* pairs: #pairs of the Headers object
\* last:  the last call on it: the method, its arguments, whether it threw
\*        and what it returned
RECURSIVE Size(_)
Size(p) == IF Len(p) = 0 THEN 0 ELSE Len(p[1].values) + Size(Tail(p))

Init ==
  \E init \in InitInputs :
    LET h == Headers(init)
    IN /\ ~h.threw
       /\ pairs = h.pairs
       /\ last = [op |-> "constructor", threw |-> FALSE]

CallSet ==
  \E a \in ArgInputs :
    LET r == set(pairs, a[1], a[2])
    IN /\ Size(r.pairs) <= MaxVals
       /\ pairs' = r.pairs
       /\ last' = [op |-> "set", name |-> a[1], value |-> a[2], threw |-> r.threw]

CallAppend ==
  \E a \in ArgInputs :
    LET r == append(pairs, a[1], a[2])
    IN /\ Size(r.pairs) <= MaxVals
       /\ pairs' = r.pairs
       /\ last' = [op |-> "append", name |-> a[1], value |-> a[2], threw |-> r.threw]

CallDelete ==
  \E name \in NameInputs :
    LET r == delete(pairs, name)
    IN /\ pairs' = r.pairs
       /\ last' = [op |-> "delete", name |-> name, threw |-> r.threw]

\* a call that returns something
Query(op, r, name) ==
  /\ pairs' = r.pairs
  /\ last' = [op |-> op, name |-> name, threw |-> r.threw, ret |-> r.ret]

CallHas == \E name \in NameInputs : Query("has", has(pairs, name), name)

CallGet == \E name \in NameInputs : Query("get", get(pairs, name), name)

CallGetSetCookie == Query("getSetCookie", getSetCookie(pairs), <<>>)

CallEntries == Query("entries", entries(pairs), <<>>)

CallKeys == Query("keys", keys(pairs), <<>>)

CallValues == Query("values", values(pairs), <<>>)

CallIterator == Query("iterator", iterator(pairs), <<>>)

CallForEach == Query("forEach", forEach(pairs), <<>>)

\* new Headers(this): the store of the new object is what the call returns
CallHeaders ==
  LET r == Headers([kind |-> "Headers", pairs |-> pairs])
  IN /\ pairs' = entries(pairs).pairs
     /\ last' = [op |-> "Headers", threw |-> r.threw, ret |-> r.pairs]

Next ==
  \/ CallSet
  \/ CallAppend
  \/ CallDelete
  \/ CallHas
  \/ CallGet
  \/ CallGetSetCookie
  \/ CallEntries
  \/ CallKeys
  \/ CallValues
  \/ CallIterator
  \/ CallForEach
  \/ CallHeaders

Spec == Init /\ [][Next]_vars

\* fromRawHeaders is a function of its argument alone: every input, then the call
InitRaw ==
  /\ pairs = <<>>
  /\ \E headers \in RawInputs :
       last = [op |-> "rawHeaders", headers |-> headers, threw |-> FALSE]

CallFromRawHeaders ==
  /\ last.op = "rawHeaders"
  /\ LET r == fromRawHeaders(last.headers)
     IN last' = [op |-> "fromRawHeaders", headers |-> last.headers,
                 threw |-> r.threw, ret |-> r.pairs]
  /\ UNCHANGED pairs

NextRaw == CallFromRawHeaders

SpecRaw == InitRaw /\ [][NextRaw]_vars

\* ------------------------------------------------------------------ claims
ValidNames == {n \in NameInputs : validateHeaderName(n)}

\* the inputs that are the name n in some letter-casing
Casings(n) == {m \in ValidNames : toLowerCase(m) = toLowerCase(n)}

\* the value sequence the store holds for the lower-cased form of n
Stored(p, n) == IF MapHas(p, toLowerCase(n)) THEN MapGet(p, toLowerCase(n)) ELSE <<>>

\* every name other than n keeps its values from store p to store q
OthersKept(p, q, n) ==
  \A k \in (LowerNames \cup Range(MapKeys(p)) \cup Range(MapKeys(q))) \ {toLowerCase(n)} :
    MapGet(q, k) = MapGet(p, k)

Mutators == {"set", "append", "delete"}

\* C1: has(name) with a valid name in any casing returns true exactly when
\* the list holds an entry for the lower-cased form of name.
C1_HasCaseInsensitive ==
  (last.op = "has" /\ validateHeaderName(last.name))
    => (~last.threw /\ last.ret = MapHas(pairs, toLowerCase(last.name)))

\* C2: right after delete(name) with a valid name, get returns null and has
\* returns false for every casing of the name, every other name keeps its
\* values, and the call raises no error (also when the name is absent).
C2_DeleteRemovesEntry ==
  [][(last'.op = "delete" /\ validateHeaderName(last'.name))
       => /\ ~last'.threw
          /\ \A m \in Casings(last'.name) :
               get(pairs', m).ret = Null /\ has(pairs', m).ret = FALSE
          /\ OthersKept(pairs, pairs', last'.name)]_vars

\* C3: set, append and delete fail exactly when the name is not a token or
\* (set, append) the value holds a disallowed character, and a failed call
\* leaves the store as it was.
C3_FailedMutationKeepsStore ==
  [][last'.op \in Mutators
       => /\ last'.threw <=>
               \/ ~validateHeaderName(last'.name)
               \/ last'.op # "delete" /\ ~validateHeaderValue(last'.name, last'.value)
          /\ last'.threw => pairs' = pairs]_vars

\* a set that failed on its value alone, on a name the store holds
C3_Witness ==
  /\ last.op = "set" /\ last.threw
  /\ validateHeaderName(last.name)
  /\ MapHas(pairs, toLowerCase(last.name))

\* what get(name) shows for a value sequence: joined, lower-cased for
\* content-encoding only
Shown(name, vals) ==
  IF toLowerCase(name) = ContentEncoding THEN toLowerCase(join(vals)) ELSE join(vals)

\* C4: get(name) returns the values given for the name, in any casing, since
\* its last set or delete, joined with ", " (lower-cased for content-encoding
\* only), and null when there are none: a set leaves its value alone, an
\* append adds its value to those accumulated, a delete leaves nothing.
C4_GetAccumulated ==
  [][(last'.op \in Mutators /\ ~last'.threw)
       => \A m \in Casings(last'.name) :
            get(pairs', m).ret =
              CASE last'.op = "set" -> Shown(m, <<last'.value>>)
                [] last'.op = "append" -> Shown(m, Append(Stored(pairs, m), last'.value))
                [] last'.op = "delete" -> Null]_vars

\* C5 as stated: after a successful set(name, v) the name holds one value,
\* get(name) returns v in every casing of the name, and the other names keep
\* their values.
C5_SetReplaces_Original ==
  [][(last'.op = "set" /\ ~last'.threw)
       => /\ Stored(pairs', last'.name) = <<last'.value>>
          /\ \A m \in Casings(last'.name) : get(pairs', m).ret = last'.value
          /\ OthersKept(pairs, pairs', last'.name)]_vars

\* C5 amended: after a successful set(name, v) the name holds the one value
\* v, get(name) returns v in every casing of the name (lower-cased when the
\* name is content-encoding), and the other names keep their values.
C5_SetReplaces ==
  [][(last'.op = "set" /\ ~last'.threw)
       => /\ Stored(pairs', last'.name) = <<last'.value>>
          /\ \A m \in Casings(last'.name) :
               get(pairs', m).ret =
                 IF toLowerCase(m) = ContentEncoding
                   THEN toLowerCase(last'.value) ELSE last'.value
          /\ OthersKept(pairs, pairs', last'.name)]_vars

\* a set of Content-Encoding to an upper-case value, beside another name
C5_Witness ==
  /\ last.op = "set" /\ ~last.threw
  /\ toLowerCase(last.name) = ContentEncoding /\ last.name # ContentEncoding
  /\ last.value = <<"G">>
  /\ Len(pairs) >= 2

\* C6: getSetCookie() returns, one by one and in order, the values given for
\* set-cookie in any casing since its last set or delete, and the empty
\* sequence when there are none.
C6_GetSetCookieRaw ==
  [][(last'.op \in Mutators /\ ~last'.threw /\ toLowerCase(last'.name) = SetCookie)
       => getSetCookie(pairs').ret =
            CASE last'.op = "set" -> <<last'.value>>
              [] last'.op = "append" -> Append(getSetCookie(pairs).ret, last'.value)
              [] last'.op = "delete" -> <<>>]_vars

\* the pairs of es whose name is k
Named(es, k) == SelectSeq(es, LAMBDA e : e[1] = k)

IterationOps == {"entries", "keys", "values", "iterator", "forEach"}

\* C7: entries() yields pairs in non-decreasing order of name, every name
\* lower-cased, with one pair (name, get(name)) for each stored name other
\* than set-cookie and one pair for each stored set-cookie value, in stored
\* order; keys(), values(), default iteration and forEach visit that sequence.
C7_IterationCanonical ==
  last.op \in IterationOps
    => LET es == entries(pairs).ret
       IN /\ ~last.threw
          /\ \A i, j \in 1..Len(es) : i < j => localeCompare(es[i][1], es[j][1]) <= 0
          /\ \A i \in 1..Len(es) :
               es[i][1] = toLowerCase(es[i][1]) /\ MapHas(pairs, es[i][1])
          /\ \A k \in Range(MapKeys(pairs)) :
               IF k = SetCookie
                 THEN [i \in 1..Len(Named(es, k)) |-> Named(es, k)[i][2]] = MapGet(pairs, k)
                 ELSE Named(es, k) = << <<k, get(pairs, k).ret>> >>
          /\ last.ret =
               CASE last.op \in {"entries", "iterator"} -> es
                 [] last.op = "keys" -> [i \in 1..Len(es) |-> es[i][1]]
                 [] last.op = "values" -> [i \in 1..Len(es) |-> es[i][2]]
                 [] last.op = "forEach" -> [i \in 1..Len(es) |-> <<es[i][2], es[i][1]>>]

\* entries() of a store whose keys were inserted out of order and that holds
\* two set-cookie values
C7_Witness ==
  /\ last.op = "entries" /\ ~last.threw
  /\ Len(last.ret) = 3
  /\ \E i, j \in 1..Len(pairs) : i < j /\ localeCompare(pairs[i].name, pairs[j].name) > 0
  /\ Len(Stored(pairs, SetCookie)) = 2

\* the name/value windows of a flat sequence whose name and value both validate
RECURSIVE ValidWindows(_)
ValidWindows(headers) ==
  IF Len(headers) < 2 THEN <<>>
  ELSE (IF validateHeaderName(headers[1]) /\ validateHeaderValue(headers[1], headers[2])
          THEN << <<headers[1], headers[2]>> >> ELSE <<>>)
         \o ValidWindows(SubSeq(headers, 3, Len(headers)))

\* C8: fromRawHeaders never raises, and the list it returns holds exactly the
\* (name, value) windows whose name and value both validate, appended in
\* input order.
C8_FromRawHeadersNeverRaises ==
  last.op = "fromRawHeaders"
    => /\ ~last.threw
       /\ last.ret = AppendAll(<<>>, ValidWindows(last.headers)).pairs

\* C9: new Headers(source) has the entries() and the getSetCookie() of the
\* source, and leaves the source as it was.
C9_CopyReproducesView ==
  [][last'.op = "Headers"
       => /\ ~last'.threw
          /\ entries(last'.ret).ret = entries(pairs).ret
          /\ getSetCookie(last'.ret).ret = getSetCookie(pairs).ret
          /\ pairs' = pairs]_vars

\* a copy of a list holding two set-cookie values and an upper-case
\* content-encoding: the copy's store is not the source's
C9_Witness ==
  /\ last.op = "Headers" /\ ~last.threw
  /\ Len(Stored(pairs, SetCookie)) = 2
  /\ Stored(pairs, ContentEncoding) = << <<"G">> >>
  /\ last.ret # pairs

StoreInvariant(p) ==
  \A i \in 1..Len(p) :
    /\ p[i].name = toLowerCase(p[i].name)
    /\ validateHeaderName(p[i].name)
    /\ Len(p[i].values) >= 1
    /\ \A j \in 1..Len(p[i].values) : validateHeaderValue(p[i].name, p[i].values[j])

\* C10: every key of the store is lower-case and a token, every stored value
\* passes value validation, and no key maps to an empty sequence; the same
\* holds of the store of a list constructed from this one.
C10_StoreInvariant ==
  /\ StoreInvariant(pairs)
  /\ (last.op = "Headers" /\ ~last.threw) => StoreInvariant(last.ret)

\* an append under a mixed-case name to a store holding another name
C10_Witness ==
  /\ last.op = "append" /\ ~last.threw
  /\ last.name # toLowerCase(last.name)
  /\ MapHas(pairs, toLowerCase(last.name))
  /\ Len(pairs) >= 2

====
